---------------------------- MODULE Spec2Model ----------------------------
(***************************************************************************)
(* Wheel-of-fortune bot backend (kristianakila/servecesaas).               *)
(*                                                                         *)
(* The model follows src/index.js: the HTTP handlers status, spin and lead *)
(* of one bot (tenant), the fallback scheduler (scheduleFallbackLead,      *)
(* checkFallback) and the sweep (processExpiredFallbacks), all working on  *)
(* the Firestore collections users, spins, referrals, leads and fallbacks  *)
(* under bots/{botId}.  Every `await` of a store or network call is a      *)
(* suspension point: a handler is a process whose pc names the call it is  *)
(* suspended at, and one action is "that call takes effect and the handler *)
(* runs on to its next await".                                             *)
(*                                                                         *)
(* The pending_fallbacks collection of FirebaseService                     *)
(* (src/unnamed/part_001) is a second store with its own operations.       *)
(*                                                                         *)
(* Clock: `now` stands for Date.now().  Two reads of the clock in the same *)
(* tick return the same millisecond value; the fallback delay of two       *)
(* minutes is FallbackDelay ticks.                                         *)
(***************************************************************************)
EXTENDS Integers, Sequences, FiniteSets, TLC

(* ------------------------------ bounds --------------------------------- *)
\* users that send requests
NumUsers == 2
\* last clock tick in a run of Spec
MaxTime == 2
\* last clock tick in a run of SpecQuota
MaxQuotaTime == 3
\* spin requests issued in a run of Spec
MaxSpinReqs == 2
\* spin requests issued in a run of SpecQuota
MaxQuotaSpinReqs == 4
\* spin requests in flight together
MaxInFlight == 2
\* lead requests issued in a run of Spec
MaxLeadReqs == 2
\* largest baseAttempts / referralBonus a bot document holds
MaxPolicy == 2
\* spin requests issued in a run of SpecPolicy
MaxPolicySpinReqs == 2
\* spin and lead requests issued in a run of FairSpec
MaxFairReqs == 1
\* handler invocations of one kind in flight together, where they run one at a time
OneAtATime == 1
\* store calls that fail in a run of SpecFault and of SpecFsWrite
MaxFaults == 1
\* spin requests issued in a run of SpecFault and of SpecReferral
MaxFewSpinReqs == 2
\* FirebaseService.addReferral calls issued in a run
MaxFsCalls == 2
\* largest spinId passed to the fallback operations of FirebaseService in a run of SpecFsWrite
MaxFsTaskId == 0
\* documents of clients/{clientId}/spins in a run of SpecFsWrite
MaxFsSpins == 2
\* fallback tasks found pending after a restart: one more than the sweep's batch
MaxRestartTasks == 11
\* tasks of the FirebaseService pending_fallbacks operations: 0 .. MaxFsPendingId
MaxFsPendingId == 1
\* items of a wheel configuration
MaxItems == 2
\* configured weights: -MaxWeight .. MaxWeight
MaxWeight == 2
\* values of Math.random(): the multiples of 1 / (2 * DrawCells) in [0, 1)
DrawCells == 2
MaxWheelConfigs == 2
MaxSelections == 1
\* bots registered in the store
NumBots == 2
\* getBotInstance calls begun, and calls suspended at the same time
MaxBotCalls == 3
MaxBotCallsInFlight == 2
\* spins of a user in one tenant, in the runs with several tenants
MaxTenantSpins == 1
\* the last pending_fallbacks id used by the clients' services
MaxClientTaskId == 0

(* ------------------------- program constants --------------------------- *)
\* index.js:696 and :702, `2 * 60 * 1000`, in clock ticks of one minute
FallbackDelay == 2
\* index.js:205 and :274, `botData.baseAttempts || 2`
DefaultBaseAttempts == 2
\* index.js:206 and :280, `botData.referralBonus || 2`
DefaultReferralBonus == 2
\* index.js:779, `.limit(10)`
SweepLimit == 10
\* index.js:291, `item.weight || 10`
DefaultWeight == 10

Max(a, b) == IF a >= b THEN a ELSE b
Min(a, b) == IF a <= b THEN a ELSE b
Users == 1..NumUsers
Times == 0..Max(MaxTime, MaxQuotaTime)
\* spinId = Date.now().toString(): a spin id is a clock value
SpinIds == 0..Max(Max(MaxTime, MaxQuotaTime), MaxRestartTasks - 1)
\* how an identifier arrives: a JSON number, the decimal string of the number,
\* or another string that parseInt maps to the number ("01")
Forms == {"number", "string", "padded"}
FsCallIds == 1..MaxFsCalls
NoReferrer == 0
NoSpin == 0 - 1
ReqIds == 1..Max(MaxSpinReqs, MaxQuotaSpinReqs)
LeadIds == 1..MaxLeadReqs
\* checkFallback invocations: 0 is the one the sweep awaits, r > 0 is the one
\* the timer armed by spin request r starts
SweepCf == 0
CfIds == {SweepCf} \cup ReqIds
\* bots/{botId}: the registered bots, each with a token; NoBot is an id of
\* no document
Bots == 1..NumBots
NoBot == 0
BotCallIds == 1..MaxBotCallsInFlight
TenantSpinIds == 0..MaxTime
ClientTaskIds == 0..MaxClientTaskId

VARIABLES
    now,          \* Date.now()
    botData,      \* bots/{botId}: baseAttempts, referralBonus, leadsChannel
    users,        \* bots/{botId}/users/{userId}
    spins,        \* bots/{botId}/spins/{spinId}
    referrals,    \* bots/{botId}/referrals/{referrerId_userId}
    leads,        \* bots/{botId}/leads/{userId}
    fallbacks,    \* bots/{botId}/fallbacks/{spinId}
    spinReq,      \* spin handler invocations
    leadReq,      \* lead handler invocations
    statusReq,    \* status handler invocation
    statusOut,    \* body of the last status response
    cf,           \* timers and checkFallback invocations
    sweep,        \* processExpiredFallbacks invocation
    leadMsgs,     \* "Новый лид" messages delivered to leadsChannel, per spinId
    fallbackMsgs, \* "Лид (фолбэк)" messages delivered to leadsChannel, per spinId
    spinOk,       \* spin responses {success: true}, per user
    overlapped,   \* users that had two spin requests in flight together
    leadEarly,    \* spinIds with a lead response {success: true} before dueAt
    resolvedAs,   \* terminal states each fallback task has been in
    fsFallbacks,  \* clients/{clientId}/pending_fallbacks/{spinId}
    startReq,     \* /start command handler invocation
    faults,       \* store or service calls that may still fail in this run
    fsReady,      \* FirebaseService.isReady(): the store was initialised
    fsReferrals,  \* clients/{clientId}/referrals: documents per (referrerId, referredId)
    fsSpins,      \* clients/{clientId}/spins: number of documents
    fsLeads,      \* clients/{clientId}/leads/{userId}: users with a document
    fsCalls,      \* FirebaseService.addReferral invocations
    fsOut,        \* outcome of the last FirebaseService write operation
    wheelItems,   \* bots/{botId}/wheelItems: the stored weights, by position
    wheelConfigured, \* the weights of the last wheel-config request answered
    wheelReq,     \* the wheel-config request being handled
    selection,    \* the last prize selection of the spin handler
    botInstances, \* the Map botInstances: per botId the cached instance, 0 for none
    botsCreated,  \* per botId, the TelegramBot instances constructed so far
    botCall,      \* getBotInstance invocations
    botReturned,  \* per botId, the instances getBotInstance has returned
    botCalls,     \* getBotInstance invocations begun
    tenantStore,  \* bots/{botId}/...: per botId the users, spins, referrals, leads, fallbacks
    clientStore,  \* clients/{clientId}/pending_fallbacks/{spinId}, per clientId
    tenantSweep,  \* processExpiredFallbacks run over all the bots
    tenantOp      \* the last operation on a tenant's documents: its name and its botId / clientId

storeVars == <<users, spins, referrals, leads, fallbacks>>
procVars == <<spinReq, leadReq, statusReq, statusOut, cf, sweep>>
outVars == <<leadMsgs, fallbackMsgs>>
histVars == <<spinOk, overlapped, leadEarly, resolvedAs>>
fsVars == <<fsFallbacks, fsReady, fsReferrals, fsSpins, fsLeads, fsCalls, fsOut>>
wheelVars == <<wheelItems, wheelConfigured, wheelReq, selection>>
cacheVars == <<botInstances, botsCreated, botCall, botReturned, botCalls>>
tenantVars == <<tenantStore, clientStore, tenantSweep, tenantOp>>
vars == <<now, botData, storeVars, procVars, outVars, histVars, startReq, faults, fsVars,
          wheelVars, cacheVars, tenantVars>>

(* ---------------------------- documents -------------------------------- *)
NoUser == [exists |-> FALSE, totalSpins |-> 0]
NoSpinDoc == [exists |-> FALSE, userId |-> 0, isLeadCollected |-> FALSE]
NoLead == [exists |-> FALSE, spinId |-> NoSpin]
NoFallback == [exists |-> FALSE, userId |-> 0, dueAt |-> 0, status |-> "none", sent |-> FALSE]
NoFsFallback == [exists |-> FALSE, state |-> "none", dueAt |-> 0, createdAt |-> 0, delay |-> 0]

IdleSpin == [pc |-> "idle", userId |-> 0, userForm |-> "number", referrerId |-> NoReferrer,
             referrerForm |-> "number", totalSpins |-> 0, refs |-> 0, spinId |-> NoSpin,
             dueAt |-> 0, result |-> "none"]
\* the response of a spin request: 400 (quota), 500 (error), else {success: true}
DoneSpin(result) == [IdleSpin EXCEPT !.pc = "done", !.result = result]
IdleLead == [pc |-> "idle", userId |-> 0, spinId |-> NoSpin, result |-> "none",
             wroteLead |-> FALSE, wroteFlag |-> FALSE, sendFailed |-> FALSE]
\* the response of a lead request: 404 (notfound) or {success: true} (ok)
DoneLead(l, result, sendFailed) ==
    [IdleLead EXCEPT !.pc = "done", !.result = result, !.wroteLead = leadReq[l].wroteLead,
                     !.wroteFlag = leadReq[l].wroteFlag, !.sendFailed = sendFailed]
IdleStart == [pc |-> "idle", userId |-> 0, referrerId |-> NoReferrer, referrerForm |-> "string"]
IdleFsCall == [pc |-> "idle", guarded |-> FALSE, referrerId |-> 0, referredId |-> 0,
               alone |-> TRUE, failed |-> FALSE, result |-> "none"]
NoFsOut == [op |-> "none", failed |-> FALSE, result |-> "none"]
NoSelection == [configured |-> <<>>, pending |-> <<>>, idle |-> TRUE, items |-> <<>>,
                draw |-> 0, prize |-> 0, n |-> 0]
NoWheelReq == [pc |-> "idle", items |-> <<>>, n |-> 0]
IdleBotCall == [pc |-> "idle", botId |-> NoBot]
\* the documents under bots/{botId} of a bot nobody has used
EmptyTenant == [users |-> [u \in Users |-> NoUser],
                spins |-> [s \in TenantSpinIds |-> NoSpinDoc],
                referrals |-> {},
                leads |-> [u \in Users |-> NoLead],
                fallbacks |-> [s \in TenantSpinIds |-> NoFallback]]
IdleTenantSweep == [pc |-> "idle", bot |-> NoBot, todo |-> {}]
NoTenantOp == [op |-> "none", botId |-> NoBot]
IdleStatus == [pc |-> "idle", userId |-> 0, totalSpins |-> 0]
NoStatus == [userId |-> 0, attemptsLeft |-> 0, totalSpins |-> 0, totalReferrals |-> 0]
IdleCf == [pc |-> "idle", spinId |-> NoSpin, fireAt |-> 0, sent |-> FALSE, leadEmpty |-> FALSE]
DoneCf == [IdleCf EXCEPT !.pc = "done"]
IdleSweep == [pc |-> "idle", queue |-> <<>>]

(* ------------------------- pure computations --------------------------- *)
\* JavaScript `x || d` on a number: 0 (like undefined) is falsy
OrDefault(x, d) == IF x = 0 THEN d ELSE x

\* referralsSnapshot.size of `.where('referrerId', '==', parseInt(userId))`
ReferralCount(u) == Cardinality({e \in referrals : e[1] = u})

\* attemptsGranted of the status and the spin handler
AttemptsGranted(base, bonus, refs) ==
    OrDefault(base, DefaultBaseAttempts) + OrDefault(bonus, DefaultReferralBonus) * refs

\* attemptsLeft of the status handler
StatusAttemptsLeft(base, bonus, refs, totalSpins) ==
    Max(0, AttemptsGranted(base, bonus, refs) - totalSpins)

\* the spin handler's `totalSpins >= attemptsGranted` rejection
QuotaExceeded(base, bonus, refs, totalSpins) ==
    totalSpins >= AttemptsGranted(base, bonus, refs)

\* JavaScript `a !== b`: values of different types are never equal; two
\* strings are equal when their text is
StrictNe(v1, f1, v2, f2) == v1 # v2 \/ f1 # f2

\* outcomes of an awaited store call: it resolves (TRUE) or, while the run's
\* budget of failures lasts, rejects (FALSE)
StoreOk == IF faults > 0 THEN BOOLEAN ELSE {TRUE}

\* a spinId no spin has in a run of Spec
AbsentSpin == MaxTime + 1

InFlightSpins == {r \in ReqIds : spinReq[r].pc \notin {"idle", "done"}}
InFlightSpinsOf(u) == {r \in InFlightSpins : spinReq[r].userId = u}

(* ------------------------------- Init ---------------------------------- *)
\* no handler runs, nothing has been sent, the FirebaseService store is
\* empty; the bot document holds a policy among `bases` and `bonuses` and has
\* a leads channel or not
InitIdle(bases, bonuses, channels, budgets, readies) ==
    /\ botData \in [baseAttempts : bases, referralBonus : bonuses, leadsChannel : channels]
    /\ users = [u \in Users |-> NoUser]
    /\ referrals = {}
    /\ spinReq = [r \in ReqIds |-> IdleSpin]
    /\ leadReq = [l \in LeadIds |-> IdleLead]
    /\ statusReq = IdleStatus
    /\ statusOut = NoStatus
    /\ cf = [i \in CfIds |-> IdleCf]
    /\ sweep = IdleSweep
    /\ leadMsgs = [s \in SpinIds |-> 0]
    /\ fallbackMsgs = [s \in SpinIds |-> 0]
    /\ spinOk = [u \in Users |-> 0]
    /\ overlapped = {}
    /\ leadEarly = {}
    /\ resolvedAs = [s \in SpinIds |-> {}]
    /\ fsFallbacks = [s \in SpinIds |-> NoFsFallback]
    /\ startReq = IdleStart
    /\ faults \in budgets
    /\ fsReady \in readies
    /\ fsReferrals = [a \in Users, b \in Users |-> 0]
    /\ fsSpins = 0
    /\ fsLeads = {}
    /\ fsCalls = [c \in FsCallIds |-> IdleFsCall]
    /\ fsOut = NoFsOut
    /\ wheelItems = <<>>
    /\ wheelConfigured = <<>>
    /\ wheelReq = NoWheelReq
    /\ selection = NoSelection
    /\ botInstances = [b \in Bots |-> 0]
    /\ botsCreated = [b \in Bots |-> 0]
    /\ botCall = [c \in BotCallIds |-> IdleBotCall]
    /\ botReturned = [b \in Bots |-> {}]
    /\ botCalls = 0
    /\ tenantStore = [b \in Bots |-> EmptyTenant]
    /\ clientStore = [c \in Bots |-> [s \in ClientTaskIds |-> "none"]]
    /\ tenantSweep = IdleTenantSweep
    /\ tenantOp = NoTenantOp

\* the stores of the bot are empty
InitWith(bases, bonuses, channels, budgets, readies) ==
    /\ now = 0
    /\ spins = [s \in SpinIds |-> NoSpinDoc]
    /\ leads = [u \in Users |-> NoLead]
    /\ fallbacks = [s \in SpinIds |-> NoFallback]
    /\ InitIdle(bases, bonuses, channels, budgets, readies)

\* the process has restarted: every timer is lost; user 1 had spun at the
\* clock values 0 .. MaxRestartTasks - 1, every task is pending and due, and
\* the user has or has not submitted the lead for the first spin
InitRestartAt(times) ==
    /\ now \in times
    /\ leads \in {[u \in Users |-> NoLead],
                  [u \in Users |-> IF u = 1 THEN [exists |-> TRUE, spinId |-> 0] ELSE NoLead]}
    /\ spins = [s \in SpinIds |-> IF s < MaxRestartTasks
                                  THEN [exists |-> TRUE, userId |-> 1,
                                        isLeadCollected |-> leads[1].exists /\ s = 0]
                                  ELSE NoSpinDoc]
    /\ fallbacks = [s \in SpinIds |-> IF s < MaxRestartTasks
                                      THEN [exists |-> TRUE, userId |-> 1,
                                            dueAt |-> s + FallbackDelay,
                                            status |-> "pending", sent |-> FALSE]
                                      ELSE NoFallback]
    /\ InitIdle({DefaultBaseAttempts}, {DefaultReferralBonus}, BOOLEAN, {0}, {TRUE})

\* the restart happens when the last task is due
LastDueAt == MaxRestartTasks - 1 + FallbackDelay
InitRestart == InitRestartAt({LastDueAt})

(* ------------------------------ clock ---------------------------------- *)
Tick(last) ==
    /\ now < last
    /\ now' = now + 1
    /\ UNCHANGED <<tenantVars, cacheVars, botData, storeVars, procVars, outVars, histVars, startReq, faults, fsVars, wheelVars>>

(* ------------------------- status handler ------------------------------ *)
\* index.js:168-183: request accepted, suspended at userSpinsRef.get()
StatusBegin ==
    /\ statusReq.pc = "idle"
    /\ \E u \in Users : statusReq' = [pc |-> "user", userId |-> u, totalSpins |-> 0]
    /\ UNCHANGED <<tenantVars, cacheVars, now, botData, storeVars, spinReq, leadReq, statusOut, cf, sweep,
                   outVars, histVars, startReq, faults, fsVars, wheelVars>>

\* a status handler that stamps the user document when it reads it
StatusReadUserTouching ==
    /\ statusReq.pc = "user"
    /\ statusReq' = [statusReq EXCEPT !.pc = "refs",
                                      !.totalSpins = users[statusReq.userId].totalSpins]
    /\ users' = [users EXCEPT ![statusReq.userId].exists = TRUE]
    /\ UNCHANGED <<tenantVars, cacheVars, now, botData, spins, referrals, leads, fallbacks, spinReq, leadReq,
                   statusOut, cf, sweep, outVars, histVars, startReq, faults, fsVars,
                   wheelVars>>

\* index.js:183-200: the user document is read, suspended at the referrals query
StatusReadUser ==
    /\ statusReq.pc = "user"
    /\ statusReq' = [statusReq EXCEPT !.pc = "refs",
                                      !.totalSpins = users[statusReq.userId].totalSpins]
    /\ UNCHANGED <<tenantVars, cacheVars, now, botData, storeVars, spinReq, leadReq, statusOut, cf, sweep,
                   outVars, histVars, startReq, faults, fsVars, wheelVars>>

\* index.js:197-229: the referrals are counted and the response is sent
StatusRespond ==
    /\ statusReq.pc = "refs"
    /\ LET refs == ReferralCount(statusReq.userId)
       IN statusOut' = [userId |-> statusReq.userId,
                        attemptsLeft |-> StatusAttemptsLeft(botData.baseAttempts,
                                            botData.referralBonus, refs, statusReq.totalSpins),
                        totalSpins |-> statusReq.totalSpins,
                        totalReferrals |-> refs]
    /\ statusReq' = IdleStatus
    /\ UNCHANGED <<tenantVars, cacheVars, now, botData, storeVars, spinReq, leadReq, cf, sweep,
                   outVars, histVars, startReq, faults, fsVars, wheelVars>>


(* --------------------------- spin handler ------------------------------ *)
FirstIdleSpin == CHOOSE r \in ReqIds : spinReq[r].pc = "idle" /\ \A q \in 1..(r - 1) : spinReq[q].pc # "idle"

\* index.js:240-266: the request is accepted and the handler is suspended at
\* userRef.get().  A request answered 400 (no userId) or 403 (subscription
\* required) before that has read and written nothing and is left out.
SpinBegin(limit, inflight, callers, referrers, userForms, referrerForms) ==
    /\ \E r \in ReqIds : spinReq[r].pc = "idle"
    /\ FirstIdleSpin <= limit
    /\ Cardinality(InFlightSpins) < inflight
    /\ \E u \in callers, ref \in referrers, uf \in userForms :
       \E rf \in IF ref = NoReferrer THEN {"number"} ELSE referrerForms :
         /\ spinReq' = [spinReq EXCEPT ![FirstIdleSpin] =
                           [IdleSpin EXCEPT !.pc = "user", !.userId = u, !.userForm = uf,
                                            !.referrerId = ref, !.referrerForm = rf]]
         /\ overlapped' = IF InFlightSpinsOf(u) # {} THEN overlapped \cup {u} ELSE overlapped
    /\ UNCHANGED <<tenantVars, cacheVars, now, botData, storeVars, leadReq, statusReq, statusOut, cf, sweep, outVars,
                   spinOk, leadEarly, resolvedAs, startReq, faults, fsVars, wheelVars>>

\* index.js:266-278: totalSpins is read from the user document
SpinReadUser(r) ==
    /\ spinReq[r].pc = "user"
    /\ spinReq' = [spinReq EXCEPT ![r].pc = "refs",
                                  ![r].totalSpins = users[spinReq[r].userId].totalSpins]
    /\ UNCHANGED <<tenantVars, cacheVars, now, botData, storeVars, leadReq, statusReq, statusOut, cf, sweep,
                   outVars, histVars, startReq, faults, fsVars, wheelVars>>

\* index.js:275-288: the referrals are counted; 400 when the attempts are used
\* up, else the handler is suspended at getWheelConfig()
SpinReadReferrals(r) ==
    /\ spinReq[r].pc = "refs"
    /\ LET refs == ReferralCount(spinReq[r].userId)
       IN IF QuotaExceeded(botData.baseAttempts, botData.referralBonus, refs,
                           spinReq[r].totalSpins)
          THEN spinReq' = [spinReq EXCEPT ![r] = DoneSpin("quota")]
          ELSE spinReq' = [spinReq EXCEPT ![r].pc = "wheel", ![r].refs = refs]
    /\ UNCHANGED <<tenantVars, cacheVars, now, botData, storeVars, leadReq, statusReq, statusOut, cf, sweep,
                   outVars, histVars, startReq, faults, fsVars, wheelVars>>

\* index.js:288-317: the wheel is read, the prize chosen and
\* spinId = Date.now().toString() taken; suspended at spinRef.set()
SpinReadWheel(r) ==
    /\ spinReq[r].pc = "wheel"
    /\ spinReq' = [spinReq EXCEPT ![r].pc = "w_spin", ![r].spinId = now]
    /\ UNCHANGED <<tenantVars, cacheVars, now, botData, storeVars, leadReq, statusReq, statusOut, cf, sweep,
                   outVars, histVars, startReq, faults, fsVars, wheelVars>>

\* index.js:316-326 and 353-356: spinRef.set(spinData) replaces the document
\* spins/{spinId}; a rejected write is caught and answered 500
SpinWriteSpin(r) ==
    /\ spinReq[r].pc = "w_spin"
    /\ \E ok \in StoreOk :
         /\ faults' = IF ok THEN faults ELSE faults - 1
         /\ spins' = IF ok
                      THEN [spins EXCEPT ![spinReq[r].spinId] =
                               [exists |-> TRUE, userId |-> spinReq[r].userId,
                                isLeadCollected |-> FALSE]]
                      ELSE spins
         /\ spinReq' = IF ok
                        THEN [spinReq EXCEPT ![r].pc = "w_user"]
                        ELSE [spinReq EXCEPT ![r] = DoneSpin("error")]
    /\ UNCHANGED <<tenantVars, cacheVars, now, botData, users, referrals, leads, fallbacks, leadReq, statusReq,
                   statusOut, cf, sweep, outVars, histVars, startReq, fsVars, wheelVars>>

\* index.js:342-351 and 686-699: scheduleFallbackLead is called without await:
\* dueAt is taken, fallbackRef.set() is issued, and the response
\* {success: true} is sent
SpinScheduled(r) ==
    [spinReq EXCEPT ![r].pc = "w_fallback", ![r].dueAt = now + FallbackDelay,
                    ![r].result = "ok"]

\* index.js:320-343: userRef.set({totalSpins: totalSpins + 1}, {merge: true})
\* with the totalSpins read before; then the referral write, if any, is issued
\* `if (referrerId && referrerId !== userId)` on the values of the request body
SpinWriteUser(r) ==
    /\ spinReq[r].pc = "w_user"
    /\ \E ok \in StoreOk :
         /\ faults' = IF ok THEN faults ELSE faults - 1
         /\ users' = IF ok
                      THEN [users EXCEPT ![spinReq[r].userId] =
                               [exists |-> TRUE, totalSpins |-> spinReq[r].totalSpins + 1]]
                      ELSE users
         /\ IF ~ok
            THEN /\ spinReq' = [spinReq EXCEPT ![r] = DoneSpin("error")]
                 /\ UNCHANGED spinOk
            ELSE IF /\ spinReq[r].referrerId # NoReferrer
                    /\ StrictNe(spinReq[r].referrerId, spinReq[r].referrerForm,
                                spinReq[r].userId, spinReq[r].userForm)
            THEN /\ spinReq' = [spinReq EXCEPT ![r].pc = "w_ref"]
                 /\ UNCHANGED spinOk
            ELSE /\ spinReq' = SpinScheduled(r)
                 /\ spinOk' = [spinOk EXCEPT ![spinReq[r].userId] = @ + 1]
    /\ UNCHANGED <<tenantVars, cacheVars, now, botData, spins, referrals, leads, fallbacks, leadReq, statusReq,
                   statusOut, cf, sweep, outVars, overlapped, leadEarly, resolvedAs,
                   startReq, fsVars, wheelVars>>

\* the document referrals/{referrerId}_{userId} written with
\* {referrerId: parseInt(referrerId), referredId: parseInt(userId)}: the two
\* numbers, and whether the key holds the referrer as another text than the
\* decimal one
ReferralDoc(referrerId, referrerForm, userId) ==
    <<referrerId, userId, referrerForm = "padded">>

\* index.js:329-351: referralRef.set(..., {merge: true}) on
\* referrals/{referrerId}_{userId}
SpinWriteReferral(r) ==
    /\ spinReq[r].pc = "w_ref"
    /\ \E ok \in StoreOk :
         /\ faults' = IF ok THEN faults ELSE faults - 1
         /\ referrals' = IF ok
                          THEN referrals \cup {ReferralDoc(spinReq[r].referrerId,
                                                  spinReq[r].referrerForm, spinReq[r].userId)}
                          ELSE referrals
         /\ spinReq' = IF ok THEN SpinScheduled(r)
                        ELSE [spinReq EXCEPT ![r] = DoneSpin("error")]
         /\ spinOk' = IF ok THEN [spinOk EXCEPT ![spinReq[r].userId] = @ + 1] ELSE spinOk
    /\ UNCHANGED <<tenantVars, cacheVars, now, botData, users, spins, leads, fallbacks, leadReq, statusReq,
                   statusOut, cf, sweep, outVars, overlapped, leadEarly, resolvedAs,
                   startReq, fsVars, wheelVars>>

\* index.js:688-702: fallbackRef.set() replaces fallbacks/{spinId} with a
\* pending task, then setTimeout arms the timer
\* a rejected write is caught at :704-706: no task and no timer
SpinWriteFallback(r) ==
    /\ spinReq[r].pc = "w_fallback"
    /\ \E ok \in StoreOk :
         /\ faults' = IF ok THEN faults ELSE faults - 1
         /\ fallbacks' = IF ok
                          THEN [fallbacks EXCEPT ![spinReq[r].spinId] =
                                   [exists |-> TRUE, userId |-> spinReq[r].userId,
                                    dueAt |-> spinReq[r].dueAt, status |-> "pending",
                                    sent |-> FALSE]]
                          ELSE fallbacks
         /\ cf' = IF ok
                   THEN [cf EXCEPT ![r] = [IdleCf EXCEPT !.pc = "armed",
                                                         !.spinId = spinReq[r].spinId,
                                                         !.fireAt = now + FallbackDelay]]
                   ELSE cf
    /\ spinReq' = [spinReq EXCEPT ![r] = DoneSpin("ok")]
    /\ UNCHANGED <<tenantVars, cacheVars, now, botData, users, spins, referrals, leads, leadReq, statusReq,
                   statusOut, sweep, outVars, histVars, startReq, fsVars, wheelVars>>

SpinStep ==
    \E r \in ReqIds :
        \/ SpinReadUser(r)
        \/ SpinReadReferrals(r)
        \/ SpinReadWheel(r)
        \/ SpinWriteSpin(r)
        \/ SpinWriteUser(r)
        \/ SpinWriteReferral(r)
        \/ SpinWriteFallback(r)

StatusStep == StatusBegin \/ StatusReadUser \/ StatusRespond


(* --------------------------- lead handler ------------------------------ *)
FirstIdleLead == CHOOSE l \in LeadIds : leadReq[l].pc = "idle" /\ \A q \in 1..(l - 1) : leadReq[q].pc # "idle"

\* index.js:362-373: the request is accepted, suspended at spinRef.get().
\* The spinId is one of a recorded spin: any other id is answered 404 by
\* LeadReadSpin, as the id of another user's spin is.
LeadBegin(limit, inflight) ==
    /\ \E l \in LeadIds : leadReq[l].pc = "idle"
    /\ FirstIdleLead <= limit
    /\ Cardinality({l \in LeadIds : leadReq[l].pc \notin {"idle", "done"}}) < inflight
    /\ \E u \in Users, s \in {x \in SpinIds : spins[x].exists} \cup {AbsentSpin} :
         leadReq' = [leadReq EXCEPT ![FirstIdleLead] =
                        [IdleLead EXCEPT !.pc = "spin", !.userId = u, !.spinId = s]]
    /\ UNCHANGED <<tenantVars, cacheVars, now, botData, storeVars, spinReq, statusReq, statusOut, cf, sweep,
                   outVars, histVars, startReq, faults, fsVars, wheelVars>>

\* the lead handler without the ownership check: only a missing spin is 404
LeadReadSpinAnyOwner(l) ==
    /\ leadReq[l].pc = "spin"
    /\ IF ~spins[leadReq[l].spinId].exists
       THEN leadReq' = [leadReq EXCEPT ![l] = DoneLead(l, "notfound", FALSE)]
       ELSE leadReq' = [leadReq EXCEPT ![l].pc = "w_lead"]
    /\ UNCHANGED <<tenantVars, cacheVars, now, botData, storeVars, spinReq, statusReq, statusOut, cf, sweep,
                   outVars, histVars, startReq, faults, fsVars, wheelVars>>

\* index.js:373-392: 404 unless the spin exists and belongs to the user; else
\* suspended at leadRef.set()
LeadReadSpin(l) ==
    /\ leadReq[l].pc = "spin"
    /\ LET spinDoc == spins[leadReq[l].spinId]
       IN IF ~spinDoc.exists \/ spinDoc.userId # leadReq[l].userId
          THEN leadReq' = [leadReq EXCEPT ![l] = DoneLead(l, "notfound", FALSE)]
          ELSE leadReq' = [leadReq EXCEPT ![l].pc = "w_lead"]
    /\ UNCHANGED <<tenantVars, cacheVars, now, botData, storeVars, spinReq, statusReq, statusOut, cf, sweep,
                   outVars, histVars, startReq, faults, fsVars, wheelVars>>

\* index.js:382-395: leadRef.set({spinId, ...}, {merge: true}) on the document
\* leads/{userId}
LeadWriteLead(l) ==
    /\ leadReq[l].pc = "w_lead"
    /\ leads' = [leads EXCEPT ![leadReq[l].userId] =
                    [exists |-> TRUE, spinId |-> leadReq[l].spinId]]
    /\ leadReq' = [leadReq EXCEPT ![l].pc = "w_spin", ![l].wroteLead = TRUE]
    /\ UNCHANGED <<tenantVars, cacheVars, now, botData, users, spins, referrals, fallbacks, spinReq, statusReq,
                   statusOut, cf, sweep, outVars, histVars, startReq, faults, fsVars, wheelVars>>

\* index.js:395-399: spinRef.update({isLeadCollected: true})
LeadWriteSpin(l) ==
    /\ leadReq[l].pc = "w_spin"
    /\ spins' = [spins EXCEPT ![leadReq[l].spinId].isLeadCollected = TRUE]
    /\ leadReq' = [leadReq EXCEPT ![l].pc = "notify", ![l].wroteFlag = TRUE]
    /\ UNCHANGED <<tenantVars, cacheVars, now, botData, users, referrals, leads, fallbacks, spinReq, statusReq,
                   statusOut, cf, sweep, outVars, histVars, startReq, faults, fsVars, wheelVars>>

\* the lead handler without the inner try/catch: a throwing sendMessage
\* reaches the outer catch and the request is answered 500
LeadNotifyUncaught(l) ==
    /\ leadReq[l].pc = "notify"
    /\ \E delivered \in BOOLEAN :
         /\ leadMsgs' = IF botData.leadsChannel /\ delivered
                        THEN [leadMsgs EXCEPT ![leadReq[l].spinId] = @ + 1]
                        ELSE leadMsgs
         /\ leadReq' = [leadReq EXCEPT ![l] =
                           DoneLead(l, IF botData.leadsChannel /\ ~delivered
                                       THEN "error" ELSE "ok",
                                    botData.leadsChannel /\ ~delivered)]
    /\ UNCHANGED <<tenantVars, cacheVars, now, botData, storeVars, spinReq, statusReq, statusOut, cf, sweep,
                   fallbackMsgs, histVars, startReq, faults, fsVars, wheelVars>>

\* index.js:398-422: with a leads channel the message is sent; sendMessage
\* delivers it or throws, and the throw is caught; then {success: true}
LeadNotify(l) ==
    /\ leadReq[l].pc = "notify"
    /\ \E delivered \in BOOLEAN :
         /\ leadMsgs' = IF botData.leadsChannel /\ delivered
                        THEN [leadMsgs EXCEPT ![leadReq[l].spinId] = @ + 1]
                        ELSE leadMsgs
         /\ leadReq' = [leadReq EXCEPT ![l] =
                           DoneLead(l, "ok", botData.leadsChannel /\ ~delivered)]
    /\ leadEarly' = IF now < leadReq[l].spinId + FallbackDelay
                    THEN leadEarly \cup {leadReq[l].spinId}
                    ELSE leadEarly
    /\ UNCHANGED <<tenantVars, cacheVars, now, botData, storeVars, spinReq, statusReq, statusOut, cf, sweep,
                   fallbackMsgs, spinOk, overlapped, resolvedAs, startReq, faults, fsVars, wheelVars>>

LeadStep ==
    \E l \in LeadIds :
        \/ LeadReadSpin(l)
        \/ LeadWriteLead(l)
        \/ LeadWriteSpin(l)
        \/ LeadNotify(l)

(* --------------------------- checkFallback ----------------------------- *)
\* index.js:702: the timer armed by scheduleFallbackLead fires and calls
\* checkFallback, which is suspended at fallbackRef.get()
TimerFire(r) ==
    /\ cf[r].pc = "armed"
    /\ now >= cf[r].fireAt
    /\ cf' = [cf EXCEPT ![r].pc = "doc"]
    /\ UNCHANGED <<tenantVars, cacheVars, now, botData, storeVars, spinReq, leadReq, statusReq, statusOut, sweep,
                   outVars, histVars, startReq, faults, fsVars, wheelVars>>

\* checkFallback returns (or its catch block has logged the error)
CfReturn(i) == [cf EXCEPT ![i] = DoneCf]

\* index.js:715-726: the task is read; return when it does not exist, else
\* suspended at the leads query
CfReadDoc(i) ==
    /\ cf[i].pc = "doc"
    /\ IF ~fallbacks[cf[i].spinId].exists
       THEN cf' = CfReturn(i)
       ELSE /\ cf' = [cf EXCEPT ![i].pc = "leads", ![i].sent = fallbacks[cf[i].spinId].sent]
    /\ UNCHANGED <<tenantVars, cacheVars, now, botData, storeVars, spinReq, leadReq, statusReq, statusOut, sweep,
                   outVars, histVars, startReq, faults, fsVars, wheelVars>>

\* leadSnapshot.empty of `leads.where('spinId', '==', spinId).limit(1)`
LeadSnapshotEmpty(s) == ~\E u \in Users : leads[u].exists /\ leads[u].spinId = s

\* checkFallback without the lead query: an unsent task is notified
CfReadLeadsUnchecked(i) ==
    /\ cf[i].pc = "leads"
    /\ IF ~cf[i].sent
       THEN cf' = [cf EXCEPT ![i].pc = "notify", ![i].leadEmpty = TRUE]
       ELSE cf' = CfReturn(i)
    /\ UNCHANGED <<tenantVars, cacheVars, now, botData, storeVars, spinReq, leadReq, statusReq, statusOut, sweep,
                   outVars, histVars, startReq, faults, fsVars, wheelVars>>

\* index.js:726-758: the leads are queried; no lead and not sent: suspended at
\* botDoc.get(); a lead: suspended at fallbackRef.delete(); else return
CfReadLeads(i) ==
    /\ cf[i].pc = "leads"
    /\ LET empty == LeadSnapshotEmpty(cf[i].spinId)
       IN IF empty /\ ~cf[i].sent
          THEN /\ cf' = [cf EXCEPT ![i].pc = "notify", ![i].leadEmpty = empty]
          ELSE IF ~empty
          THEN /\ cf' = [cf EXCEPT ![i].pc = "delete", ![i].leadEmpty = empty]
          ELSE /\ cf' = CfReturn(i)
    /\ UNCHANGED <<tenantVars, cacheVars, now, botData, storeVars, spinReq, leadReq, statusReq, statusOut, sweep,
                   outVars, histVars, startReq, faults, fsVars, wheelVars>>

\* index.js:730-749: without a leads channel nothing is sent and nothing is
\* written; else sendMessage delivers the message (suspended at
\* fallbackRef.update()) or throws (caught at :760)
CfNotify(i) ==
    /\ cf[i].pc = "notify"
    /\ \E delivered \in BOOLEAN :
         IF botData.leadsChannel /\ delivered
         THEN /\ fallbackMsgs' = [fallbackMsgs EXCEPT ![cf[i].spinId] = @ + 1]
              /\ cf' = [cf EXCEPT ![i].pc = "update"]
         ELSE /\ cf' = CfReturn(i)
              /\ UNCHANGED fallbackMsgs
    /\ UNCHANGED <<tenantVars, cacheVars, now, botData, storeVars, spinReq, leadReq, statusReq, statusOut, sweep,
                   leadMsgs, histVars, startReq, faults, fsVars, wheelVars>>

\* index.js:749-753: fallbackRef.update({sent: true, status: 'sent'}); update
\* of a missing document throws (caught at :760)
CfUpdate(i) ==
    /\ cf[i].pc = "update"
    /\ IF fallbacks[cf[i].spinId].exists
       THEN /\ fallbacks' = [fallbacks EXCEPT ![cf[i].spinId].sent = TRUE,
                                              ![cf[i].spinId].status = "sent"]
            /\ resolvedAs' = [resolvedAs EXCEPT ![cf[i].spinId] = @ \cup {"fallback"}]
       ELSE UNCHANGED <<fallbacks, resolvedAs>>
    /\ cf' = CfReturn(i)
    /\ UNCHANGED <<tenantVars, cacheVars, now, botData, users, spins, referrals, leads, spinReq, leadReq, statusReq,
                   statusOut, sweep, outVars, spinOk, overlapped, leadEarly, startReq, faults, fsVars, wheelVars>>

\* index.js:755-758: a full lead was collected: fallbackRef.delete()
CfDelete(i) ==
    /\ cf[i].pc = "delete"
    /\ fallbacks' = [fallbacks EXCEPT ![cf[i].spinId] = NoFallback]
    /\ resolvedAs' = IF fallbacks[cf[i].spinId].exists
                     THEN [resolvedAs EXCEPT ![cf[i].spinId] = @ \cup {"full"}]
                     ELSE resolvedAs
    /\ cf' = CfReturn(i)
    /\ UNCHANGED <<tenantVars, cacheVars, now, botData, users, spins, referrals, leads, spinReq, leadReq, statusReq,
                   statusOut, sweep, outVars, spinOk, overlapped, leadEarly, startReq, faults, fsVars, wheelVars>>

CfStep ==
    \E i \in CfIds :
        \/ CfReadDoc(i)
        \/ CfReadLeads(i)
        \/ CfNotify(i)
        \/ CfUpdate(i)
        \/ CfDelete(i)

(* ------------------------------- sweep --------------------------------- *)
\* the pending tasks with dueAt <= now
Expired == {s \in SpinIds : /\ fallbacks[s].exists
                            /\ fallbacks[s].status = "pending"
                            /\ fallbacks[s].dueAt <= now}

\* Firestore returns the documents of an inequality query in the order of the
\* compared field, then of the document id
DueBefore(q, s) ==
    \/ fallbacks[q].dueAt < fallbacks[s].dueAt
    \/ fallbacks[q].dueAt = fallbacks[s].dueAt /\ q < s

ByDueAt(S) ==
    [i \in 1..Cardinality(S) |->
        CHOOSE s \in S : Cardinality({q \in S : DueBefore(q, s)}) = i - 1]

\* the query without `.limit(n)`
NoLimit(seq, n) == seq

\* `.limit(n)`
Limit(seq, n) == SubSeq(seq, 1, Min(Len(seq), n))

\* index.js:768-780: setInterval starts a pass; the expired pending tasks are
\* queried
SweepStart ==
    /\ sweep.pc = "idle"
    /\ sweep' = [pc |-> "loop", queue |-> Limit(ByDueAt(Expired), SweepLimit)]
    /\ UNCHANGED <<tenantVars, cacheVars, now, botData, storeVars, spinReq, leadReq, statusReq, statusOut, cf,
                   outVars, histVars, startReq, faults, fsVars, wheelVars>>

\* index.js:782-785: `await checkFallback(botId, fallbackData.spinId)` for the
\* next document, once the previous call has returned; the pass ends after the
\* last one
SweepNext ==
    /\ sweep.pc = "loop"
    /\ cf[SweepCf].pc \in {"idle", "done"}
    /\ IF sweep.queue = <<>>
       THEN /\ sweep' = IdleSweep
            /\ cf' = [cf EXCEPT ![SweepCf] = IdleCf]
       ELSE /\ sweep' = [sweep EXCEPT !.queue = Tail(sweep.queue)]
            /\ cf' = [cf EXCEPT ![SweepCf] = [IdleCf EXCEPT !.pc = "doc",
                                                            !.spinId = Head(sweep.queue)]]
    /\ UNCHANGED <<tenantVars, cacheVars, now, botData, storeVars, spinReq, leadReq, statusReq, statusOut,
                   outVars, histVars, startReq, faults, fsVars, wheelVars>>

(* ---------------- FirebaseService: pending_fallbacks ------------------- *)
\* part_001:203, `(fallbackData.delay || 120) * 1000`, in clock ticks of one minute
FsDefaultDelay == 2
FsStates == {"pending", "resolved-full", "resolved-fallback"}

\* part_001:197-206 (part_000:318-334): set(..., {merge: true}) on
\* pending_fallbacks/{spinId} with the fields of fallbackData (its delay
\* among them), state 'pending', createdAt and a new dueAt
FsAddPendingFallback(s, delay) ==
    /\ fsFallbacks' = [fsFallbacks EXCEPT ![s] =
                          [exists |-> TRUE, state |-> "pending",
                           dueAt |-> now + OrDefault(delay, FsDefaultDelay),
                           createdAt |-> now, delay |-> delay]]
    /\ UNCHANGED <<tenantVars, cacheVars, now, botData, storeVars, procVars, outVars, histVars, startReq, faults,
                   fsReady, fsReferrals, fsSpins, fsLeads, fsCalls, fsOut, wheelVars>>

\* part_001:222-228 (part_000:336-348): update({state}) on
\* pending_fallbacks/{spinId}; update of a missing document throws
FsUpdateFallbackState(s, state) ==
    /\ fsFallbacks' = IF fsFallbacks[s].exists
                      THEN [fsFallbacks EXCEPT ![s].state = state]
                      ELSE fsFallbacks
    /\ UNCHANGED <<tenantVars, cacheVars, now, botData, storeVars, procVars, outVars, histVars, startReq, faults,
                   fsReady, fsReferrals, fsSpins, fsLeads, fsCalls, fsOut, wheelVars>>

(* ------------------------- /start command ------------------------------ *)
\* index.js:849-866: a message "/start <payload>" of user u; the payload is
\* text.split(' ')[1], a string; suspended at sendMessage(welcome)
StartBegin(callers, payloads, forms) ==
    /\ startReq.pc = "idle"
    /\ \E u \in callers, ref \in payloads :
       \E rf \in IF ref = NoReferrer THEN {"string"} ELSE forms :
         startReq' = [pc |-> "welcome", userId |-> u, referrerId |-> ref, referrerForm |-> rf]
    /\ UNCHANGED <<tenantVars, cacheVars, now, botData, storeVars, spinReq, leadReq, statusReq, statusOut, cf, sweep,
                   outVars, histVars, faults, fsVars, wheelVars>>

\* index.js:866-878: the welcome message is sent, or sendMessage throws and
\* the catch at :930 ends the handler; then suspended at userRef.set()
StartWelcome ==
    /\ startReq.pc = "welcome"
    /\ \E delivered \in BOOLEAN :
         startReq' = IF delivered THEN [startReq EXCEPT !.pc = "w_user"] ELSE IdleStart
    /\ UNCHANGED <<tenantVars, cacheVars, now, botData, storeVars, spinReq, leadReq, statusReq, statusOut, cf, sweep,
                   outVars, histVars, faults, fsVars, wheelVars>>

\* index.js:869-892: userRef.set({...}, {merge: true}) creates users/{from.id}
\* or keeps its totalSpins; then `referrerId && referrerId !== from.id.toString()`
StartWriteUser ==
    /\ startReq.pc = "w_user"
    /\ users' = [users EXCEPT ![startReq.userId].exists = TRUE]
    /\ startReq' = IF /\ startReq.referrerId # NoReferrer
                      /\ StrictNe(startReq.referrerId, startReq.referrerForm,
                                  startReq.userId, "string")
                   THEN [startReq EXCEPT !.pc = "w_ref"]
                   ELSE IdleStart
    /\ UNCHANGED <<tenantVars, cacheVars, now, botData, spins, referrals, leads, fallbacks, spinReq, leadReq,
                   statusReq, statusOut, cf, sweep, outVars, histVars, faults, fsVars, wheelVars>>

\* a referral write keyed by the referred user alone, referrals/{from.id}:
\* the edge of another referrer to the same user is replaced
StartWriteReferralByReferred ==
    /\ startReq.pc = "w_ref"
    /\ referrals' = {e \in referrals : e[2] # startReq.userId}
                       \cup {ReferralDoc(startReq.referrerId, startReq.referrerForm,
                                         startReq.userId)}
    /\ startReq' = IdleStart
    /\ UNCHANGED <<tenantVars, cacheVars, now, botData, users, spins, leads, fallbacks, spinReq, leadReq,
                   statusReq, statusOut, cf, sweep, outVars, histVars, faults, fsVars, wheelVars>>

\* index.js:882-892: referralRef.set(..., {merge: true}) on
\* referrals/{referrerId}_{from.id}
StartWriteReferral ==
    /\ startReq.pc = "w_ref"
    /\ referrals' = referrals \cup {ReferralDoc(startReq.referrerId, startReq.referrerForm,
                                                startReq.userId)}
    /\ startReq' = IdleStart
    /\ UNCHANGED <<tenantVars, cacheVars, now, botData, users, spins, leads, fallbacks, spinReq, leadReq,
                   statusReq, statusOut, cf, sweep, outVars, histVars, faults, fsVars, wheelVars>>

StartStep == StartWelcome \/ StartWriteUser \/ StartWriteReferral

(* ---------------- FirebaseService: referrals --------------------------- *)
FsInFlightCalls == {c \in FsCallIds : fsCalls[c].pc \notin {"idle", "done"}}
FsFirstIdleCall == CHOOSE c \in FsCallIds : fsCalls[c].pc = "idle" /\ \A q \in 1..(c - 1) : fsCalls[q].pc # "idle"

\* what addReferral answers when a store call rejects: part_001 lets the
\* error through, part_000:204-207 catches it and returns {exists: false}
FsReferralFailure(c) ==
    [fsCalls[c] EXCEPT !.pc = "done", !.failed = TRUE,
                       !.result = IF fsCalls[c].guarded THEN "notcreated" ELSE "throws"]

\* part_001:110-117 / part_000:183-193: addReferral({referrerId, referredId})
\* is called; part_000 returns {exists: false} when the store is not
\* initialised; else suspended at the existence query
FsAddReferralBegin(guards, referrers) ==
    /\ \E c \in FsCallIds : fsCalls[c].pc = "idle"
    /\ \E a \in referrers, b \in Users, g \in guards :
         fsCalls' = [fsCalls EXCEPT ![FsFirstIdleCall] =
                        IF g /\ ~fsReady
                        THEN [IdleFsCall EXCEPT !.pc = "done", !.guarded = g, !.referrerId = a,
                                                !.referredId = b, !.alone = FsInFlightCalls = {},
                                                !.failed = TRUE, !.result = "notcreated"]
                        ELSE [IdleFsCall EXCEPT !.pc = "query", !.guarded = g, !.referrerId = a,
                                                !.referredId = b, !.alone = FsInFlightCalls = {}]]
    /\ UNCHANGED <<tenantVars, cacheVars, now, botData, storeVars, procVars, outVars, histVars, startReq, faults,
                   fsFallbacks, fsReady, fsReferrals, fsSpins, fsLeads, fsOut, wheelVars>>

\* addReferral without the existence check: the insert always follows
FsAddReferralQueryUnchecked(c) ==
    /\ fsCalls[c].pc = "query"
    /\ fsCalls' = [fsCalls EXCEPT ![c].pc = "insert"]
    /\ UNCHANGED <<tenantVars, cacheVars, now, botData, storeVars, procVars, outVars, histVars, startReq, faults,
                   fsFallbacks, fsReady, fsReferrals, fsSpins, fsLeads, fsOut, wheelVars>>

\* part_001:113-120: the existence query returns; {exists: true} when it is
\* not empty, else suspended at referralsRef.add()
FsAddReferralQuery(c) ==
    /\ fsCalls[c].pc = "query"
    /\ \E ok \in StoreOk :
         /\ faults' = IF ok THEN faults ELSE faults - 1
         /\ fsCalls' = [fsCalls EXCEPT ![c] =
                           IF ~ok THEN FsReferralFailure(c)
                           ELSE IF fsReferrals[fsCalls[c].referrerId, fsCalls[c].referredId] > 0
                           THEN [fsCalls[c] EXCEPT !.pc = "done", !.result = "exists"]
                           ELSE [fsCalls[c] EXCEPT !.pc = "insert"]]
    /\ UNCHANGED <<tenantVars, cacheVars, now, botData, storeVars, procVars, outVars, histVars, startReq,
                   fsFallbacks, fsReady, fsReferrals, fsSpins, fsLeads, fsOut, wheelVars>>

\* part_001:123-127: referralsRef.add() inserts a document with a new id
FsAddReferralInsert(c) ==
    /\ fsCalls[c].pc = "insert"
    /\ \E ok \in StoreOk :
         /\ faults' = IF ok THEN faults ELSE faults - 1
         /\ fsReferrals' = IF ok
                           THEN [fsReferrals EXCEPT
                                    ![fsCalls[c].referrerId, fsCalls[c].referredId] = @ + 1]
                           ELSE fsReferrals
         /\ fsCalls' = [fsCalls EXCEPT ![c] =
                           IF ok THEN [fsCalls[c] EXCEPT !.pc = "done", !.result = "created"]
                           ELSE FsReferralFailure(c)]
    /\ UNCHANGED <<tenantVars, cacheVars, now, botData, storeVars, procVars, outVars, histVars, startReq,
                   fsFallbacks, fsReady, fsSpins, fsLeads, fsOut, wheelVars>>

FsAddReferralStep == \E c \in FsCallIds : FsAddReferralQuery(c) \/ FsAddReferralInsert(c)

RECURSIVE SumOver(_, _)
SumOver(f, S) == IF S = {} THEN 0
                 ELSE LET x == CHOOSE y \in S : TRUE IN f[x] + SumOver(f, S \ {x})

\* part_001:130-136: countReferrals(userId): size of the query on referrerId
FsCountReferrals(u) == SumOver([b \in Users |-> fsReferrals[u, b]], Users)

(* ------------- FirebaseService: guarded write operations --------------- *)
\* part_000:131-148: addSpin returns mock data when the store is not
\* initialised; it logs and rethrows a rejected add()
FsAddSpin ==
    /\ fsSpins < MaxFsSpins
    /\ \E ok \in StoreOk :
         /\ faults' = IF fsReady /\ ~ok THEN faults - 1 ELSE faults
         /\ fsSpins' = IF fsReady /\ ok THEN fsSpins + 1 ELSE fsSpins
         /\ fsOut' = [op |-> "addSpin", failed |-> ~(fsReady /\ ok),
                      result |-> IF fsReady /\ ~ok THEN "throws" ELSE "value"]
    /\ UNCHANGED <<tenantVars, cacheVars, now, botData, storeVars, procVars, outVars, histVars, startReq,
                   fsFallbacks, fsReady, fsReferrals, fsLeads, fsCalls, wheelVars>>

\* part_000:226-240: saveLead returns {id, ...leadData} when the store is not
\* initialised and when set() rejects
FsSaveLead(u) ==
    /\ \E ok \in StoreOk :
         /\ faults' = IF fsReady /\ ~ok THEN faults - 1 ELSE faults
         /\ fsLeads' = IF fsReady /\ ok THEN fsLeads \cup {u} ELSE fsLeads
         /\ fsOut' = [op |-> "saveLead", failed |-> ~(fsReady /\ ok), result |-> "value"]
    /\ UNCHANGED <<tenantVars, cacheVars, now, botData, storeVars, procVars, outVars, histVars, startReq,
                   fsFallbacks, fsReady, fsReferrals, fsSpins, fsCalls, wheelVars>>

\* part_000:318-334: addPendingFallback returns {id, ...fallbackData} when the
\* store is not initialised and when set() rejects
FsAddPendingFallbackGuarded(s, delay) ==
    /\ \E ok \in StoreOk :
         /\ faults' = IF fsReady /\ ~ok THEN faults - 1 ELSE faults
         /\ fsFallbacks' = IF fsReady /\ ok
                           THEN [fsFallbacks EXCEPT ![s] =
                                    [exists |-> TRUE, state |-> "pending",
                                     dueAt |-> now + OrDefault(delay, FsDefaultDelay),
                                     createdAt |-> now, delay |-> delay]]
                           ELSE fsFallbacks
         /\ fsOut' = [op |-> "addPendingFallback", failed |-> ~(fsReady /\ ok),
                      result |-> "value"]
    /\ UNCHANGED <<tenantVars, cacheVars, now, botData, storeVars, procVars, outVars, histVars, startReq,
                   fsReady, fsReferrals, fsSpins, fsLeads, fsCalls, wheelVars>>

\* part_000:336-348: updateFallbackState returns undefined when the store is
\* not initialised and when update() rejects (also for a missing document)
FsUpdateFallbackStateGuarded(s, state) ==
    /\ \E ok \in StoreOk :
         /\ faults' = IF fsReady /\ ~ok THEN faults - 1 ELSE faults
         /\ fsFallbacks' = IF fsReady /\ ok /\ fsFallbacks[s].exists
                           THEN [fsFallbacks EXCEPT ![s].state = state]
                           ELSE fsFallbacks
         /\ fsOut' = [op |-> "updateFallbackState",
                      failed |-> ~(fsReady /\ ok /\ fsFallbacks[s].exists),
                      result |-> "void"]
    /\ UNCHANGED <<tenantVars, cacheVars, now, botData, storeVars, procVars, outVars, histVars, startReq,
                   fsReady, fsReferrals, fsSpins, fsLeads, fsCalls, wheelVars>>

(* ------------------------------- wheel --------------------------------- *)
Weights == (0 - MaxWeight)..MaxWeight
WheelConfigs == UNION {[1..n -> Weights] : n \in 0..MaxItems}
Draws == 0..(2 * DrawCells - 1)

\* `item.weight || 10`
EffectiveWeight(w) == OrDefault(w, DefaultWeight)

\* index.js:551-588: the wheel-config handler replaces the wheelItems
\* collection by one document per item of the request body, in order, with
\* weight: item.weight || 10; it is suspended at each await, first at the
\* reads of the administrator and of the stored items
WheelConfigBegin(items) ==
    /\ wheelReq.pc = "idle"
    /\ wheelReq.n < MaxWheelConfigs
    /\ wheelReq' = [pc |-> "delete", items |-> items, n |-> wheelReq.n + 1]
    /\ UNCHANGED <<tenantVars, cacheVars, now, botData, storeVars, procVars, outVars, histVars, startReq, faults,
                   fsVars, wheelItems, wheelConfigured, selection>>

\* the handler has answered: res.json({ success: true })
WheelConfigDone(items) ==
    /\ wheelReq' = [wheelReq EXCEPT !.pc = "idle", !.items = <<>>]
    /\ wheelConfigured' = items

\* index.js:568-574: the batch that deletes every stored item is committed;
\* with an empty request body the loop does not run and the handler answers
WheelConfigDelete ==
    /\ wheelReq.pc = "delete"
    /\ wheelItems' = <<>>
    /\ IF wheelReq.items = <<>>
         THEN WheelConfigDone(wheelReq.items)
         ELSE wheelReq' = [wheelReq EXCEPT !.pc = "add"] /\ UNCHANGED wheelConfigured
    /\ UNCHANGED <<tenantVars, cacheVars, now, botData, storeVars, procVars, outVars, histVars, startReq, faults,
                   fsVars, selection>>

\* index.js:577-586: one `await wheelItemsRef.add(...)` of the loop, for the
\* item at position Len(wheelItems); after the last one the handler answers
WheelConfigAdd ==
    /\ wheelReq.pc = "add"
    /\ wheelItems' = Append(wheelItems, EffectiveWeight(wheelReq.items[Len(wheelItems) + 1]))
    /\ IF Len(wheelItems) + 1 = Len(wheelReq.items)
         THEN WheelConfigDone(wheelReq.items)
         ELSE UNCHANGED <<wheelReq, wheelConfigured>>
    /\ UNCHANGED <<tenantVars, cacheVars, now, botData, storeVars, procVars, outVars, histVars, startReq, faults,
                   fsVars, selection>>

\* index.js:108-124: the stored items by position, or the two default items
\* of weight 10 when the collection is empty
GetWheelConfig == IF wheelItems = <<>> THEN <<DefaultWeight, DefaultWeight>> ELSE wheelItems

\* the weights the administrator configured: those of the request body, or
\* the defaults when nothing is configured
ConfiguredWeights ==
    IF wheelConfigured = <<>> THEN <<DefaultWeight, DefaultWeight>> ELSE wheelConfigured

\* the weights of the request body being written, or the configured ones
\* when no wheel-config request is being handled
PendingWeights ==
    IF wheelReq.pc = "idle" THEN ConfiguredWeights
    ELSE IF wheelReq.items = <<>> THEN <<DefaultWeight, DefaultWeight>> ELSE wheelReq.items

RECURSIVE SumWeights(_, _)
SumWeights(items, n) == IF n = 0 THEN 0 ELSE SumWeights(items, n - 1) + items[n]

\* index.js:291: totalWeight
TotalWeight(items) ==
    SumWeights([i \in 1..Len(items) |-> EffectiveWeight(items[i])], Len(items))

\* index.js:294-301: the loop over the items; randomWeight is held in units
\* of 1 / (2 * DrawCells); when no item brings it to <= 0 the prize stays
\* wheelItems[0]
RECURSIVE SelectFrom(_, _, _)
SelectFrom(items, i, randomWeight) ==
    IF i > Len(items) THEN 1
    ELSE LET left == randomWeight - 2 * DrawCells * EffectiveWeight(items[i])
         IN IF left <= 0 THEN i ELSE SelectFrom(items, i + 1, left)

\* index.js:291-301 with Math.random() = draw / (2 * DrawCells)
SelectedPrize(items, draw) == SelectFrom(items, 1, draw * TotalWeight(items))

\* index.js:288-301: the spin handler reads the wheel and selects the prize
SelectPrize(draw) ==
    /\ selection.n < MaxSelections
    /\ selection' = [configured |-> ConfiguredWeights, pending |-> PendingWeights,
                     idle |-> wheelReq.pc = "idle", items |-> GetWheelConfig,
                     draw |-> draw, prize |-> SelectedPrize(GetWheelConfig, draw),
                     n |-> selection.n + 1]
    /\ UNCHANGED <<tenantVars, cacheVars, now, botData, storeVars, procVars, outVars, histVars, startReq, faults,
                   fsVars, wheelItems, wheelConfigured, wheelReq>>

(* ----------------------------- bot cache ------------------------------- *)
\* index.js:39-47 (botManager.js:6-9): getBotInstance(botId) returns the
\* cached instance when the Map has the botId, else it is suspended at
\* db.collection('bots').doc(botId).get()
GetBotInstanceBegin(c, b) ==
    /\ botCall[c].pc = "idle"
    /\ botCalls < MaxBotCalls
    /\ botCalls' = botCalls + 1
    /\ IF b \in Bots /\ botInstances[b] # 0
         THEN /\ botReturned' = [botReturned EXCEPT ![b] = @ \cup {botInstances[b]}]
              /\ UNCHANGED botCall
         ELSE /\ botCall' = [botCall EXCEPT ![c] = [pc |-> "get", botId |-> b]]
              /\ UNCHANGED botReturned
    /\ UNCHANGED <<now, botData, storeVars, procVars, outVars, histVars, startReq, faults,
                   fsVars, wheelVars, tenantVars, botInstances, botsCreated>>

\* index.js:48-65 (botManager.js:10-19): the document has arrived; without a
\* document the call throws, else it constructs a TelegramBot, stores it in
\* the Map under the botId and returns it
GetBotInstanceCreate(c) ==
    /\ botCall[c].pc = "get"
    /\ botCall' = [botCall EXCEPT ![c] = IdleBotCall]
    /\ LET b == botCall[c].botId
       IN IF b \in Bots
           THEN /\ botsCreated' = [botsCreated EXCEPT ![b] = @ + 1]
                /\ botInstances' = [botInstances EXCEPT ![b] = botsCreated[b] + 1]
                /\ botReturned' = [botReturned EXCEPT ![b] = @ \cup {botsCreated[b] + 1}]
           ELSE UNCHANGED <<botInstances, botsCreated, botReturned>>
    /\ UNCHANGED <<now, botData, storeVars, procVars, outVars, histVars, startReq, faults,
                   fsVars, wheelVars, tenantVars, botCalls>>

(* ------------------------------ tenants -------------------------------- *)
\* every handler of index.js addresses its documents as
\* db.collection('bots').doc(botId).collection(name), with the botId of its
\* request; FirebaseService.collection (part_001:59-64) addresses
\* clients/{this.clientId}/name. The handlers are taken here as a whole, by
\* the documents they write.
TenantUnchanged ==
    UNCHANGED <<now, botData, storeVars, procVars, outVars, histVars, startReq, faults,
                fsVars, wheelVars, cacheVars>>

\* index.js:240-357, 686-699: the spin handler for bot b writes
\* bots/b/spins/{spinId}, bots/b/users/{userId}, for a referrer
\* bots/b/referrals/{referrerId}_{userId}, and bots/b/fallbacks/{spinId}
TenantSpin(b, u, referrerId) ==
    LET t == tenantStore[b]
        refs == Cardinality({e \in t.referrals : e[1] = u})
    IN /\ t.users[u].totalSpins < MaxTenantSpins
       /\ AttemptsGranted(botData.baseAttempts, botData.referralBonus, refs)
              > t.users[u].totalSpins
       /\ tenantStore' = [tenantStore EXCEPT ![b] =
              [t EXCEPT !.spins[now] = [exists |-> TRUE, userId |-> u, isLeadCollected |-> FALSE],
                        !.users[u] = [exists |-> TRUE, totalSpins |-> t.users[u].totalSpins + 1],
                        !.referrals = IF referrerId # NoReferrer /\ referrerId # u
                                      THEN @ \cup {ReferralDoc(referrerId, "number", u)}
                                      ELSE @,
                        !.fallbacks[now] = [exists |-> TRUE, userId |-> u,
                                            dueAt |-> now + FallbackDelay,
                                            status |-> "pending", sent |-> FALSE]]]
       /\ tenantOp' = [op |-> "spin", botId |-> b]
       /\ UNCHANGED <<clientStore, tenantSweep>>
       /\ TenantUnchanged

\* index.js:362-395: the lead handler for bot b, for a spin of the user,
\* writes bots/b/leads/{userId} and updates bots/b/spins/{spinId}
TenantLead(b, u, s) ==
    LET t == tenantStore[b]
    IN /\ t.spins[s].exists
       /\ t.spins[s].userId = u
       /\ tenantStore' = [tenantStore EXCEPT ![b] =
              [t EXCEPT !.leads[u] = [exists |-> TRUE, spinId |-> s],
                        !.spins[s].isLeadCollected = TRUE]]
       /\ tenantOp' = [op |-> "lead", botId |-> b]
       /\ UNCHANGED <<clientStore, tenantSweep>>
       /\ TenantUnchanged

\* index.js:712-758: checkFallback(botId, spinId) reads
\* bots/botId/fallbacks/spinId and the leads of the bot with this spinId; it
\* updates the task to 'sent' or deletes it
TenantCheckFallback(b, s) ==
    LET t == tenantStore[b]
        leadEmpty == ~\E u \in Users : t.leads[u].exists /\ t.leads[u].spinId = s
    IN IF ~t.fallbacks[s].exists THEN t
       ELSE IF leadEmpty /\ ~t.fallbacks[s].sent
       THEN IF botData.leadsChannel
            THEN [t EXCEPT !.fallbacks[s].sent = TRUE, !.fallbacks[s].status = "sent"]
            ELSE t
       ELSE IF ~leadEmpty THEN [t EXCEPT !.fallbacks[s] = NoFallback]
       ELSE t

\* index.js:702: the timer armed by scheduleFallbackLead(botId, spinId, ...)
\* calls checkFallback(botId, spinId) after the delay
TenantTimer(b, s) ==
    /\ tenantStore[b].fallbacks[s].exists
    /\ now >= tenantStore[b].fallbacks[s].dueAt
    /\ tenantStore' = [tenantStore EXCEPT ![b] = TenantCheckFallback(b, s)]
    /\ tenantOp' = [op |-> "resolve", botId |-> b]
    /\ UNCHANGED <<clientStore, tenantSweep>>
    /\ TenantUnchanged

\* index.js:768-770: the sweep reads the bots
TenantSweepStart ==
    /\ tenantSweep.pc = "idle"
    /\ tenantSweep' = [pc |-> "query", bot |-> 1, todo |-> {}]
    /\ tenantOp' = [op |-> "sweep", botId |-> NoBot]
    /\ UNCHANGED <<tenantStore, clientStore>>
    /\ TenantUnchanged

\* index.js:772-780: for the next bot, the query of its pending tasks with
\* dueAt <= now; after the last bot the sweep ends
TenantSweepQuery ==
    /\ tenantSweep.pc = "query"
    /\ IF tenantSweep.bot \in Bots
         THEN /\ tenantSweep' = [tenantSweep EXCEPT !.pc = "loop", !.todo =
                     {s \in TenantSpinIds :
                         LET f == tenantStore[tenantSweep.bot].fallbacks[s]
                         IN f.exists /\ f.status = "pending" /\ f.dueAt <= now}]
              /\ tenantOp' = [op |-> "sweep", botId |-> tenantSweep.bot]
         ELSE /\ tenantSweep' = IdleTenantSweep
              /\ tenantOp' = [op |-> "sweep", botId |-> NoBot]
    /\ UNCHANGED <<tenantStore, clientStore>>
    /\ TenantUnchanged

\* the sweep resolves the task of another bot than the one it queried
TenantSweepNextFirstBot ==
    /\ tenantSweep.pc = "loop"
    /\ IF tenantSweep.todo = {}
         THEN /\ tenantSweep' = [pc |-> "query", bot |-> tenantSweep.bot + 1, todo |-> {}]
              /\ UNCHANGED tenantStore
         ELSE LET s == CHOOSE x \in tenantSweep.todo : \A y \in tenantSweep.todo : x <= y
              IN /\ tenantStore' = [tenantStore EXCEPT ![1] = TenantCheckFallback(1, s)]
                 /\ tenantSweep' = [tenantSweep EXCEPT !.todo = @ \ {s}]
    /\ tenantOp' = [op |-> IF tenantSweep.todo = {} THEN "sweep" ELSE "checkFallback",
                    botId |-> tenantSweep.bot]
    /\ UNCHANGED clientStore
    /\ TenantUnchanged

\* index.js:782-785: `await checkFallback(botId, fallbackData.spinId)` for
\* the next queried task of the bot, then the next bot
TenantSweepNext ==
    /\ tenantSweep.pc = "loop"
    /\ IF tenantSweep.todo = {}
         THEN /\ tenantSweep' = [pc |-> "query", bot |-> tenantSweep.bot + 1, todo |-> {}]
              /\ UNCHANGED tenantStore
         ELSE LET s == CHOOSE x \in tenantSweep.todo : \A y \in tenantSweep.todo : x <= y
              IN /\ tenantStore' = [tenantStore EXCEPT ![tenantSweep.bot] =
                                        TenantCheckFallback(tenantSweep.bot, s)]
                 /\ tenantSweep' = [tenantSweep EXCEPT !.todo = @ \ {s}]
    /\ tenantOp' = [op |-> IF tenantSweep.todo = {} THEN "sweep" ELSE "checkFallback",
                    botId |-> tenantSweep.bot]
    /\ UNCHANGED clientStore
    /\ TenantUnchanged

\* part_001:197-206: addPendingFallback of the service constructed for
\* client c sets clients/c/pending_fallbacks/{spinId}
ClientAddPendingFallback(c, s) ==
    /\ clientStore' = [clientStore EXCEPT ![c][s] = "pending"]
    /\ tenantOp' = [op |-> "addPendingFallback", botId |-> c]
    /\ UNCHANGED <<tenantStore, tenantSweep>>
    /\ TenantUnchanged

\* part_001:222-228: updateFallbackState of the service constructed for
\* client c updates clients/c/pending_fallbacks/{spinId}, which must exist
ClientUpdateFallbackState(c, s, state) ==
    /\ clientStore[c][s] # "none"
    /\ clientStore' = [clientStore EXCEPT ![c][s] = state]
    /\ tenantOp' = [op |-> "updateFallbackState", botId |-> c]
    /\ UNCHANGED <<tenantStore, tenantSweep>>
    /\ TenantUnchanged

(* --------------------------- specifications ---------------------------- *)
TimerStep == \E r \in ReqIds : TimerFire(r)

\* the fallback engine: spins and leads of one user, one request of a kind at
\* a time, with the timers and the sweep
Init == InitWith({DefaultBaseAttempts}, {DefaultReferralBonus}, BOOLEAN, {0}, {TRUE})

Next ==
    \/ SpinBegin(MaxSpinReqs, OneAtATime, {1}, {NoReferrer, NumUsers}, {"number"}, {"number"})
    \/ SpinStep
    \/ LeadBegin(MaxLeadReqs, OneAtATime)
    \/ LeadStep
    \/ TimerStep
    \/ CfStep
    \/ SweepStart
    \/ SweepNext
    \/ Tick(MaxTime)

Spec == Init /\ [][Next]_vars

\* concurrent spin requests of one user
NextQuota ==
    \/ SpinBegin(MaxQuotaSpinReqs, MaxInFlight, {1}, {NoReferrer, NumUsers}, {"number"}, {"number"})
    \/ SpinStep
    \/ Tick(MaxQuotaTime)

SpecQuota == InitWith({DefaultBaseAttempts}, {DefaultReferralBonus}, {TRUE}, {0}, {TRUE}) /\ [][NextQuota]_vars

\* every policy: status requests and spin requests, one spin at a time
NextPolicy ==
    \/ SpinBegin(MaxPolicySpinReqs, OneAtATime, Users, Users \cup {NoReferrer}, {"number"}, {"number"})
    \/ SpinStep
    \/ StatusStep
    \/ Tick(MaxTime)

SpecPolicy == InitWith(0..MaxPolicy, 0..MaxPolicy, {TRUE}, {0}, {TRUE}) /\ [][NextPolicy]_vars

\* the operations of FirebaseService on pending_fallbacks
NextFs ==
    \/ \E s \in 0..MaxFsPendingId, delay \in 0..FsDefaultDelay : FsAddPendingFallback(s, delay)
    \/ \E s \in 0..MaxFsPendingId, state \in FsStates : FsUpdateFallbackState(s, state)
    \/ Tick(MaxTime)

SpecFs == Init /\ [][NextFs]_vars

\* spin requests, one at a time, whose body holds the userId as a string and
\* the referrerId as a string, in decimal form or padded
NextSpinForms ==
    \/ SpinBegin(MaxFewSpinReqs, OneAtATime, Users, Users \cup {NoReferrer}, {"string"},
                 {"string", "padded"})
    \/ SpinStep

SpecSpinForms ==
    InitWith({DefaultBaseAttempts}, {DefaultReferralBonus}, {TRUE}, {0}, {TRUE})
       /\ [][NextSpinForms]_vars

\* the wheel: configurations of up to MaxItems items and prize selections
NextWheel ==
    \/ \E items \in WheelConfigs : WheelConfigBegin(items)
    \/ WheelConfigDelete
    \/ WheelConfigAdd
    \/ \E draw \in Draws : SelectPrize(draw)

SpecWheel ==
    InitWith({DefaultBaseAttempts}, {DefaultReferralBonus}, {TRUE}, {0}, {TRUE})
       /\ [][NextWheel]_vars

\* several tenants: the same user, and the same spin ids, in every bot
NextTenant ==
    \/ \E b \in Bots, referrerId \in {NoReferrer, NumUsers} : TenantSpin(b, 1, referrerId)
    \/ \E b \in Bots, s \in TenantSpinIds : TenantLead(b, 1, s)
    \/ \E b \in Bots, s \in TenantSpinIds : TenantTimer(b, s)
    \/ TenantSweepStart
    \/ TenantSweepQuery
    \/ TenantSweepNext
    \/ \E c \in Bots, s \in ClientTaskIds : ClientAddPendingFallback(c, s)
    \/ \E c \in Bots, s \in ClientTaskIds, state \in FsStates :
          ClientUpdateFallbackState(c, s, state)
    \/ Tick(MaxTime)

SpecTenant ==
    InitWith({DefaultBaseAttempts}, {DefaultReferralBonus}, {TRUE}, {0}, {TRUE})
       /\ [][NextTenant]_vars

\* the bot cache: getBotInstance calls for registered and unregistered bots
NextCache ==
    \/ \E c \in BotCallIds, b \in Bots \cup {NoBot} : GetBotInstanceBegin(c, b)
    \/ \E c \in BotCallIds : GetBotInstanceCreate(c)

SpecCache == Init /\ [][NextCache]_vars

\* the referral entry points: FirebaseService.addReferral for referrer 1, the
\* /start command of the last user with a payload in either form, and the
\* spin requests of user 1 with the referrerId as a number or as a string
NextReferral ==
    \/ FsAddReferralBegin({FALSE}, {1})
    \/ FsAddReferralStep
    \/ StartBegin({NumUsers}, Users, {"string", "padded"})
    \/ StartStep
    \/ SpinBegin(MaxFewSpinReqs, OneAtATime, {1}, Users, {"number"}, {"number", "string"})
    \/ SpinStep

SpecReferral ==
    InitWith({DefaultBaseAttempts}, {DefaultReferralBonus}, {TRUE}, {0}, {TRUE})
       /\ [][NextReferral]_vars

\* spin requests, one at a time, with a store call that may reject
NextFault ==
    \/ SpinBegin(MaxFewSpinReqs, OneAtATime, {1}, {NoReferrer, NumUsers}, {"number"}, {"number"})
    \/ SpinStep
    \/ Tick(MaxTime)

SpecFault ==
    InitWith({DefaultBaseAttempts}, {DefaultReferralBonus}, {TRUE}, {MaxFaults}, {TRUE})
       /\ [][NextFault]_vars

\* the guarded write operations of FirebaseService, the store initialised or
\* not, with a store call that may reject
NextFsWrite ==
    \/ FsAddSpin
    \/ \E u \in Users : FsSaveLead(u)
    \/ \E s \in 0..MaxFsTaskId, delay \in 0..FsDefaultDelay : FsAddPendingFallbackGuarded(s, delay)
    \/ \E s \in 0..MaxFsTaskId, state \in FsStates : FsUpdateFallbackStateGuarded(s, state)
    \/ FsAddReferralBegin({TRUE}, Users)
    \/ FsAddReferralStep

SpecFsWrite ==
    InitWith({DefaultBaseAttempts}, {DefaultReferralBonus}, {TRUE}, {MaxFaults}, BOOLEAN)
       /\ [][NextFsWrite]_vars

\* the fallback engine with weak fairness of every handler, of the timers, of
\* the sweep and of the clock, and strong fairness of a delivered notification
CfDelivered == \E i \in CfIds : CfNotify(i) /\ cf'[i].pc = "update"

NextFair ==
    \/ SpinBegin(MaxFairReqs, OneAtATime, {1}, {NoReferrer, NumUsers}, {"number"}, {"number"})
    \/ SpinStep
    \/ LeadBegin(MaxFairReqs, OneAtATime)
    \/ LeadStep
    \/ TimerStep
    \/ CfStep
    \/ SweepStart
    \/ SweepNext
    \/ Tick(MaxTime)

FairSpec ==
    /\ Init
    /\ [][NextFair]_vars
    /\ WF_vars(SpinStep)
    /\ WF_vars(LeadStep)
    /\ WF_vars(TimerStep)
    /\ WF_vars(CfStep)
    /\ SF_vars(CfDelivered)
    /\ WF_vars(SweepStart)
    /\ WF_vars(SweepNext)
    /\ WF_vars(Tick(MaxTime))

\* after a restart: the sweep alone, with weak fairness of the interval
\* callback, of its loop and of checkFallback, and strong fairness of a
\* delivered notification
NextRestart ==
    \/ SweepStart
    \/ SweepNext
    \/ CfStep

RestartSpec ==
    /\ InitRestart
    /\ [][NextRestart]_vars
    /\ WF_vars(SweepStart)
    /\ WF_vars(SweepNext)
    /\ WF_vars(CfStep)
    /\ SF_vars(CfDelivered)

\* the sweep after a restart that happens just before or when the last task
\* is due, with the clock
NextSweep ==
    \/ SweepStart
    \/ SweepNext
    \/ CfStep
    \/ Tick(LastDueAt)

SpecSweep == InitRestartAt({LastDueAt - 1, LastDueAt}) /\ [][NextSweep]_vars

(* ---------------------------- properties ------------------------------- *)
\* the spin records of user u
SpinRecordsOf(u) == {s \in SpinIds : spins[s].exists /\ spins[s].userId = u}

\* a lead request has been received
LeadRequested == \E l \in LeadIds : leadReq[l].pc # "idle"

\* spin request r has passed the quota check
Admitted(r) == spinReq[r].pc \in {"wheel", "w_spin", "w_user", "w_ref", "w_fallback"}

\* C1: for every spin at most one lead notification, full or fallback, is ever
\* sent, and exactly one has been sent once its fallback task is resolved
C1_OneNotificationPerSpin ==
    \A s \in SpinIds :
        /\ leadMsgs[s] + fallbackMsgs[s] <= 1
        /\ resolvedAs[s] # {} => leadMsgs[s] + fallbackMsgs[s] = 1

\* C2: a fallback task that has left pending is never pending again, and no
\* task is resolved both as full and as fallback over its lifetime
C2_StateMonotonic ==
    \A s \in SpinIds :
        /\ resolvedAs[s] # {} => fallbacks[s].status # "pending"
        /\ Cardinality(resolvedAs[s]) <= 1

\* C3: with no lead submitted, checkFallback invocations that overlap on one
\* pending task send one fallback notification, not two
C3_ConcurrentResolveSendsOnce ==
    ~LeadRequested => \A s \in SpinIds : fallbackMsgs[s] <= 1

\* C4: once a full lead has been submitted for a spin before its dueAt, no
\* step sends a fallback notification for that spin
C4_NoFallbackAfterEarlyLead ==
    [][\A s \in leadEarly : fallbackMsgs'[s] = fallbackMsgs[s]]_vars

\* C5: a pending task whose dueAt has passed leads, unless a lead is
\* submitted, to a state from which on exactly one fallback notification has
\* been sent and the task is resolved as fallback
C5_FallbackEventuallySentOnce ==
    \A s \in SpinIds :
        [](s \in Expired =>
              <>[](LeadRequested \/ (fallbackMsgs[s] = 1 /\ fallbacks[s].status = "sent")))

\* C6: the attemptsLeft answered by the status handler is not negative and is
\* max(0, baseAttempts + referralBonus * referralCount - spinsTotal)
C6_AttemptsLeftFormula ==
    statusOut.userId # 0 =>
        /\ statusOut.attemptsLeft >= 0
        /\ statusOut.attemptsLeft =
              Max(0, botData.baseAttempts + botData.referralBonus * statusOut.totalReferrals
                       - statusOut.totalSpins)

\* C7: with one spin request at a time, a request is admitted only while
\* attemptsLeft = max(0, base + bonus * referrals - spinsTotal) is positive,
\* and a user's spin records never exceed the quota base + bonus * referrals
C7_SequentialSpinsKeepQuota ==
    /\ \A r \in ReqIds :
          Admitted(r) =>
              botData.baseAttempts + botData.referralBonus * spinReq[r].refs
                 - spinReq[r].totalSpins > 0
    /\ \A u \in Users :
          Cardinality(SpinRecordsOf(u)) <=
              botData.baseAttempts + botData.referralBonus * ReferralCount(u)

\* C8: with at most two spin requests of a user in flight, the user's spin
\* records exceed the quota by at most one
C8_OvershootAtMostOne ==
    \A u \in Users :
        Cardinality(SpinRecordsOf(u)) <=
            botData.baseAttempts + botData.referralBonus * ReferralCount(u) + 1

\* C9: the stored totalSpins of a user is the number of the user's spin
\* requests answered with success, whenever none of them is in flight
C9_TotalSpinsCountsSuccesses ==
    \A u \in Users : InFlightSpinsOf(u) = {} => users[u].totalSpins = spinOk[u]

\* C10: the spin requests of a user answered with success have left as many
\* spin records, whenever none of them is in flight
C10_OneRecordPerSpin ==
    \A u \in Users : InFlightSpinsOf(u) = {} => Cardinality(SpinRecordsOf(u)) = spinOk[u]

\* the addReferral calls were made one after the other
FsSequential == \A c \in FsCallIds : fsCalls[c].alone

\* the edges of the bot's referrals collection with the numbers (a, b)
EdgesOf(a, b) == {e \in referrals : e[1] = a /\ e[2] = b}

\* by how much a step changes the number of referrals of user a
ReferralGrowth(a) == ReferralCount(a)' - ReferralCount(a)

C12_OneEdgePerPair ==
    \A a \in Users, b \in Users :
        /\ fsReferrals[a, b] <= 1
        /\ Cardinality(EdgesOf(a, b)) <= 1

\* C13: no edge has referrerId = referredId, and an addReferral call with
\* referrerId = referredId is rejected
C13_NoSelfReferral ==
    /\ \A a \in Users : fsReferrals[a, a] = 0 /\ EdgesOf(a, a) = {}
    /\ \A c \in FsCallIds :
          fsCalls[c].pc = "done" /\ fsCalls[c].referrerId = fsCalls[c].referredId =>
              fsCalls[c].result = "throws"

\* spin request r has passed spinRef.set(): its spin record is written
SpinWrote(r) == spinReq[r].pc \in {"w_user", "w_ref"}

\* C14: a spin request answered with an error has written nothing: a store
\* call that rejects never leaves the spin record without the totalSpins
\* increment, and a request answered with success has written both
C14_SpinAllOrNothing ==
    [][\A r \in ReqIds :
          /\ spinReq'[r].result = "error" /\ spinReq[r].result # "error" => ~SpinWrote(r)
          /\ spinReq'[r].result = "ok" /\ spinReq[r].result # "ok" => SpinWrote(r)]_vars

\* C15: a lead request for a spin that does not exist or belongs to another
\* user is answered not found, and it writes no lead, leaves every spin
\* record as it is and sends nothing
C15_LeadNotFoundWritesNothing ==
    /\ [][\A l \in LeadIds :
             /\ leadReq[l].pc = "spin"
             /\ leadReq'[l] # leadReq[l]
             /\ \/ ~spins[leadReq[l].spinId].exists
                \/ spins[leadReq[l].spinId].userId # leadReq[l].userId
             => /\ leadReq'[l].pc = "done"
                /\ leadReq'[l].result = "notfound"
                /\ UNCHANGED <<leads, spins, leadMsgs, fallbackMsgs>>]_vars
    /\ [](\A l \in LeadIds :
             leadReq[l].result = "notfound" =>
                 ~leadReq[l].wroteLead /\ ~leadReq[l].wroteFlag /\ ~leadReq[l].sendFailed)

\* C15 witness: a lead request was answered not found while a spin is recorded
C15_Witness ==
    /\ \E l \in LeadIds : leadReq[l].pc = "done" /\ leadReq[l].result = "notfound"
    /\ \E s \in SpinIds : spins[s].exists

\* C16: isLeadCollected is false when the spin record is created, becomes true
\* only by the lead handler's update for that spinId, and once true stays true
C16_LeadCollectedMonotonic ==
    [][\A s \in SpinIds :
          /\ ~spins[s].exists /\ spins'[s].exists => ~spins'[s].isLeadCollected
          /\ ~spins[s].isLeadCollected /\ spins'[s].isLeadCollected =>
                \E l \in LeadIds : leadReq[l].pc = "w_spin" /\ leadReq[l].spinId = s
          /\ spins[s].isLeadCollected => spins'[s].isLeadCollected]_vars

\* C17: when checkFallback finds the task pending with no lead and
\* sendMessage throws, the call still leaves the task resolved as fallback
C17_FallbackResolvedDespiteNotifier ==
    [][\A i \in CfIds :
          cf[i].pc = "notify" /\ botData.leadsChannel /\ cf'[i].pc = "done" =>
              fallbacks'[cf[i].spinId].status = "sent"]_vars

\* C18: a lead request that passed the ownership check and whose notification
\* failed is answered ok, after it has stored the lead record and set
\* isLeadCollected
C18_LeadSucceedsDespiteNotifier ==
    /\ [](\A l \in LeadIds :
             leadReq[l].pc = "done" /\ leadReq[l].sendFailed =>
                 leadReq[l].result = "ok" /\ leadReq[l].wroteLead /\ leadReq[l].wroteFlag)
    /\ [][\A l \in LeadIds :
             /\ leadReq[l].pc = "w_lead" /\ leadReq'[l].pc = "w_spin" =>
                   leads'[leadReq[l].userId] = [exists |-> TRUE, spinId |-> leadReq[l].spinId]
             /\ leadReq[l].pc = "w_spin" /\ leadReq'[l].pc = "notify" =>
                   spins'[leadReq[l].spinId].isLeadCollected
             /\ leadReq[l].pc = "notify" /\ leadReq'[l].pc = "done" =>
                   leads'[leadReq[l].userId].exists /\ UNCHANGED <<leads, spins>>]_vars

\* C18 witness: a lead request whose notification failed was answered ok
C18_Witness ==
    \E l \in LeadIds :
        leadReq[l].pc = "done" /\ leadReq[l].sendFailed /\ leadReq[l].result = "ok"

\* C19: a guarded write operation of FirebaseService that persisted nothing,
\* the store rejecting the call or not being initialised, throws
C19_WriteFailureSurfaces ==
    /\ fsOut.failed => fsOut.result = "throws"
    /\ \A c \in FsCallIds : fsCalls[c].failed => fsCalls[c].result = "throws"

\* the sweep has passed task s to checkFallback, which is running on it
PassedToResolve(s) ==
    cf[SweepCf].spinId = s /\ cf[SweepCf].pc \in {"doc", "leads", "notify", "update", "delete"}

\* C20: after a restart every task that is pending and due is eventually
\* passed to checkFallback by the sweep
C20_SweepReachesEveryDueTask ==
    \A s \in SpinIds : [](s \in Expired => <>PassedToResolve(s))

\* C21: a checkFallback call that finds a lead for its spinId goes to the
\* delete branch and sends nothing, and when it returns the task is resolved
\* as full and not pending
C21_LeadFoundResolvesFull ==
    [][\A i \in CfIds :
          /\ cf[i].pc = "leads" /\ cf'[i] # cf[i] /\ ~LeadSnapshotEmpty(cf[i].spinId) =>
                cf'[i].pc = "delete" /\ UNCHANGED <<leadMsgs, fallbackMsgs>>
          /\ cf[i].pc = "delete" /\ cf'[i] # cf[i] =>
                /\ cf'[i].pc = "done"
                /\ UNCHANGED <<leadMsgs, fallbackMsgs>>
                /\ fallbacks'[cf[i].spinId].status # "pending"
                /\ fallbacks[cf[i].spinId].exists => "full" \in resolvedAs'[cf[i].spinId]]_vars

\* C21 witness: a task was resolved as full while a lead for its spinId is
\* stored and no fallback notification was sent for it
C21_Witness ==
    \E s \in SpinIds :
        /\ "full" \in resolvedAs[s]
        /\ ~LeadSnapshotEmpty(s)
        /\ fallbackMsgs[s] = 0
        /\ fallbacks[s].status # "pending"

\* C22: when the lead handler answers ok, the fallback task of the spinId is
\* not pending
C22_LeadMovesTaskOutOfPending ==
    [][\A l \in LeadIds :
          leadReq[l].pc = "notify" /\ leadReq'[l].pc = "done" /\ leadReq'[l].result = "ok" =>
              fallbacks'[leadReq[l].spinId].status # "pending"]_vars

\* C23: a step of the lead handler, of checkFallback or of
\* scheduleFallbackLead for one spinId leaves, for every other spinId, the
\* spin record, the fallback task and the answer of the lead query unchanged
C23_DifferentSpinsIndependent ==
    [][\A a \in SpinIds :
          (\/ \E l \in LeadIds : /\ leadReq'[l] # leadReq[l]
                                 /\ leadReq[l].pc \in {"w_lead", "w_spin", "notify"}
                                 /\ leadReq[l].spinId # a
           \/ \E i \in CfIds : /\ cf'[i] # cf[i]
                               /\ cf[i].pc \in {"doc", "leads", "notify", "update", "delete"}
                               /\ cf[i].spinId # a
           \/ \E r \in ReqIds : /\ spinReq'[r] # spinReq[r]
                                /\ spinReq[r].pc = "w_fallback"
                                /\ spinReq[r].spinId # a)
          => /\ spins'[a] = spins[a]
             /\ fallbacks'[a] = fallbacks[a]
             /\ LeadSnapshotEmpty(a)' = LeadSnapshotEmpty(a)]_vars

\* the selection read the wheel while no wheel-config request was handled
ReadWhileIdle == selection.idle

\* the sum of the weights as configured
ConfiguredTotal(weights) == SumWeights(weights, Len(weights))

\* the first item, in order, whose cumulative configured weight strictly
\* exceeds r = (draw / (2 * DrawCells)) * total
FirstExceeding(weights, draw) ==
    CHOOSE i \in 1..Len(weights) :
        /\ 2 * DrawCells * SumWeights(weights, i) > draw * ConfiguredTotal(weights)
        /\ \A k \in 1..(i - 1) :
              2 * DrawCells * SumWeights(weights, k) <= draw * ConfiguredTotal(weights)

\* C24: on a wheel of positive total weight the selected prize is the first
\* item whose cumulative weight strictly exceeds the draw, and it is not an
\* item configured with weight 0
C24_FirstItemExceedingDraw ==
    selection.prize # 0 /\ ReadWhileIdle /\ ConfiguredTotal(selection.configured) > 0 =>
        /\ selection.prize = FirstExceeding(selection.configured, selection.draw)
        /\ selection.configured[selection.prize] # 0

\* the weights are all zero or all negative
Degenerate(weights) ==
    \/ \A i \in 1..Len(weights) : weights[i] = 0
    \/ \A i \in 1..Len(weights) : weights[i] < 0

\* the share of item i: the cells of Math.random()'s range, taken at their
\* midpoints, for which the spin handler selects item i
Share(items, i) ==
    Cardinality({c \in 0..(DrawCells - 1) : SelectedPrize(items, 2 * c + 1) = i})

\* C25: on a wheel whose weights are all zero or all negative every item can
\* be selected and all items have the same share of the draws
C25_DegenerateWheelUniform ==
    selection.prize # 0 /\ ReadWhileIdle /\ Degenerate(selection.configured) =>
        \A i, k \in 1..Len(selection.items) :
            /\ Share(selection.items, i) > 0
            /\ Share(selection.items, i) = Share(selection.items, k)

\* C26: a sweep pass queries at most SweepLimit tasks, each of them pending
\* with dueAt <= now at the query and none twice, and checkFallback is called
\* by the sweep on the queried tasks only, one after the other
C26_SweepOnlyDuePending ==
    [][/\ sweep.pc = "idle" /\ sweep'.pc = "loop" =>
             /\ Len(sweep'.queue) <= SweepLimit
             /\ \A k \in 1..Len(sweep'.queue) : sweep'.queue[k] \in Expired
             /\ \A k, m \in 1..Len(sweep'.queue) : k # m => sweep'.queue[k] # sweep'.queue[m]
       /\ cf'[SweepCf].pc = "doc" /\ cf[SweepCf].pc # "doc" =>
             /\ sweep.queue # <<>>
             /\ cf'[SweepCf].spinId = Head(sweep.queue)
             /\ sweep'.queue = Tail(sweep.queue)]_vars

\* C26 witness: more than SweepLimit tasks are due and pending, the pass has
\* queried SweepLimit of them and has passed the first to checkFallback
C26_Witness ==
    /\ Cardinality(Expired) > SweepLimit
    /\ sweep.pc = "loop"
    /\ Len(sweep.queue) = SweepLimit - 1
    /\ cf[SweepCf].pc = "doc"

\* C27: when scheduleFallbackLead of a spin answered with success has
\* finished, the fallback task of its spinId exists
C27_SuccessfulSpinHasTask ==
    [][\A r \in ReqIds :
          spinReq[r].pc = "w_fallback" /\ spinReq'[r].pc = "done" =>
              /\ spins'[spinReq[r].spinId].exists
              /\ fallbacks'[spinReq[r].spinId].exists]_vars

\* C28: a task created by addPendingFallback is due at its creation time plus
\* the requested delay, also for delay 0
C28_DueAtIsCreationPlusDelay ==
    \A s \in SpinIds :
        fsFallbacks[s].exists =>
            fsFallbacks[s].dueAt = fsFallbacks[s].createdAt + fsFallbacks[s].delay

\* C29: the record of a fallback task that was resolved, as full or as
\* fallback, is in the store
C29_ResolvedTaskRetained ==
    \A s \in SpinIds : resolvedAs[s] # {} => fallbacks[s].exists

\* C30: a fallback notification for a spin is sent only when the dueAt of its
\* task has passed
C30_NoFallbackBeforeDueAt ==
    [][\A s \in SpinIds :
          fallbackMsgs'[s] > fallbackMsgs[s] /\ fallbacks[s].exists =>
              fallbacks[s].dueAt <= now]_vars

\* C31: the stored totalSpins of a user never decreases in a step
C31_TotalSpinsNeverDecreases ==
    [][\A u \in Users : users'[u].totalSpins >= users[u].totalSpins]_vars

\* index.js:350: attemptsLeft of the spin response
SpinAttemptsLeft(r) ==
    AttemptsGranted(botData.baseAttempts, botData.referralBonus, spinReq[r].refs)
       - (spinReq[r].totalSpins + 1)

\* index.js:183-208: the attemptsLeft the status handler computes from the
\* store as it is
StatusAttemptsLeftNow(u) ==
    StatusAttemptsLeft(botData.baseAttempts, botData.referralBonus, ReferralCount(u),
                       users[u].totalSpins)

\* C32: when a spin request has answered with success, its attemptsLeft is
\* the attemptsLeft the status handler reports for the user from that state
C32_SpinAndStatusAgree ==
    \A r \in ReqIds :
        spinReq[r].pc = "w_fallback" /\ spinReq[r].result = "ok" =>
            SpinAttemptsLeft(r) = StatusAttemptsLeftNow(spinReq[r].userId)

\* C33: the referral count of a user never decreases in a step, in the bot's
\* collection and in FirebaseService's, and so the attempts granted to the
\* user never decrease
C33_ReferralCreditPermanent ==
    [][\A u \in Users :
          /\ ReferralCount(u)' >= ReferralCount(u)
          /\ FsCountReferrals(u)' >= FsCountReferrals(u)
          /\ AttemptsGranted(botData.baseAttempts, botData.referralBonus, ReferralCount(u))'
                >= AttemptsGranted(botData.baseAttempts, botData.referralBonus,
                                   ReferralCount(u))]_vars

\* C33 witness: a user holds referral credit in the bot's collection and in
\* FirebaseService's, and another user holds credit too
C33_Witness ==
    \E u, v \in Users :
        u # v /\ ReferralCount(u) >= 1 /\ FsCountReferrals(u) >= 1 /\ ReferralCount(v) >= 1

\* C34: a step of the status handler leaves users, spins, referrals, leads
\* and fallback tasks unchanged
C34_StatusReadOnly ==
    [][statusReq' # statusReq \/ statusOut' # statusOut => UNCHANGED storeVars]_vars

\* C34 witness: the status handler has answered for a user who has no user
\* document, while another user has spun
C34_Witness ==
    /\ statusOut.userId # 0
    /\ ~users[statusOut.userId].exists
    /\ \E u \in Users : users[u].exists

\* what getWheelConfig returns for a complete set of configured weights
StoredWheel(weights) == [i \in 1..Len(weights) |-> EffectiveWeight(weights[i])]

\* C36: a prize selection reads either the complete set of items configured
\* before the wheel-config request being handled or the complete set of that
\* request, never an empty or partial set
C36_ReplaceAtomicToReaders ==
    selection.prize # 0 =>
        selection.items \in {StoredWheel(selection.configured), StoredWheel(selection.pending)}

\* C37: for every botId at most one bot instance has been constructed, and
\* all the getBotInstance calls answered for it returned the same instance
C37_OneInstancePerBot ==
    \A b \in Bots : botsCreated[b] <= 1 /\ Cardinality(botReturned[b]) <= 1

\* C35: a step of the spin handler, the lead handler, the resolution of a
\* task or the sweep, or of a client's service, taken for one tenant leaves
\* the users, spins, referrals, leads and fallback tasks of every other
\* tenant as they were
C35_TenantsIsolated ==
    [][\A b \in Bots : b # tenantOp'.botId =>
          tenantStore'[b] = tenantStore[b] /\ clientStore'[b] = clientStore[b]]_vars

\* C35 witness: the sweep has resolved the due task of bot 1 while bot 2
\* holds a pending task with the same spin id, of the same user
C35_Witness ==
    /\ tenantOp = [op |-> "checkFallback", botId |-> 1]
    /\ \E s \in TenantSpinIds :
          /\ tenantStore[1].fallbacks[s].status = "sent"
          /\ tenantStore[2].fallbacks[s].status = "pending"
          /\ tenantStore[1].fallbacks[s].userId = tenantStore[2].fallbacks[s].userId


=============================================================================
